---- MODULE Spec2Model ----
(***************************************************************************)
(* tidewatch data pipeline: fetch_noaa_data.py (the fetcher) followed by   *)
(* build_database.py (the database builder).                               *)
(*                                                                         *)
(* A JSON object is a record with a field `keys` (the keys present) beside *)
(* its values; a value whose key is absent holds a fixed filler.  Python's *)
(* None, JSON null and SQL NULL are the string "NULL".  Durations are in   *)
(* milliseconds.  Of a station row the columns id, type,                   *)
(* referenceStationId and datumOffset are kept; of a constituent row       *)
(* stationId, constituentName and amplitude; of an offsets row stationId,  *)
(* referenceStationId and timeOffsetHigh: the other columns are copied     *)
(* from the input the same way.  The database connection never enables     *)
(* foreign-key enforcement (no PRAGMA foreign_keys), so the FOREIGN KEY    *)
(* clauses of the schema have no effect, as SQLite documents.              *)
(***************************************************************************)
EXTENDS Integers, Sequences, FiniteSets, TLC

VARIABLES
    \* ---- build_database.py
    stations_file,      \* the JSON document: <<it exists, its list of station objects>>
    dbfile,             \* committed content of the output database file
    conn,               \* the open connection's view (committed + pending inserts)
    bpc,                \* position of the builder
    bi,                 \* loop index of `for station_data in stations`
    previous,           \* content of the database file when the current run started
    reran               \* TRUE once a run over this input has completed before this one

bvars == <<dbfile, conn, bpc, bi, previous, reran>>

VARIABLES
    \* ---- fetch_noaa_data.py
    fpc,                \* position of the fetcher
    args,               \* parsed command line: [mode, stations]
    all_stations,       \* the station list the enumeration call returned
    selected,           \* main's `stations`: the stations to process
    fi,                 \* loop index of `for i, station_data in enumerate(stations)`
    station_data,       \* the station object being enriched
    attempt,            \* `attempt` of the retry loop in progress
    enriched_stations,  \* the output list
    harcon_result,      \* per processed station, what the service answered to its harmonic call
    enum_requests,      \* number of requests made to the enumeration endpoint
    slept,              \* the sleeps made since the last network request
    last_call,          \* the last network request: [kind, attempt, gap, status]
    stderr,             \* messages printed to stderr
    exit_code           \* process exit code, -1 while running

fvars == <<fpc, args, all_stations, selected, fi, station_data, attempt,
           enriched_stations, harcon_result, enum_requests, slept, last_call, stderr,
           exit_code>>

VARIABLES
    \* ---- normalize_station_name, applied on its own
    raw_name,           \* the raw name, a sequence of characters
    normalized,         \* normalize_station_name(raw_name)
    renormalized,       \* normalize_station_name(normalized)
    npc                 \* "off", "input", "once", "twice"

nvars == <<raw_name, normalized, renormalized, npc>>

vars == <<stations_file, bvars, fvars, nvars>>

----------------------------------------------------------------------------
\* Bounds
MaxStations == 2        \* longest station list handed to the builder
MaxUpstream == 2        \* longest station list the enumeration call returns

NULL == "NULL"

\* dict.get(key, default)
Get(d, k, default) == IF k \in d.keys THEN d[k] ELSE default

\* d[key] = value
Set(d, k, v) == [d EXCEPT !.keys = @ \cup {k}, ![k] = v]

\* truth value of a dict or of None
Truthy(d) == d.keys # {}

NoDict == [keys |-> {}]

----------------------------------------------------------------------------
\* Database content

Absent == [exists |-> FALSE, schema |-> FALSE, stations |-> {},
           harmonic_constituents |-> {}, subordinate_offsets |-> {}]

\* sqlite3.connect on a missing path: a zero-length file, no tables
EmptyFile == [Absent EXCEPT !.exists = TRUE]

Closed == Absent

\* CREATE TABLE IF NOT EXISTS x3, then conn.commit(): existing tables and rows stay
create_schema(db) == [db EXCEPT !.schema = TRUE]

StationRow(d) ==
    [id                 |-> Get(d, "id", NULL),
     type               |-> Get(d, "type", "harmonic"),
     referenceStationId |-> Get(d, "referenceStationId", NULL),
     datumOffset        |-> Get(d, "datumOffset", 0)]

insert_station_Ignore(db, d) ==
    LET row == StationRow(d) IN
    IF row.id = NULL \/ row.type = NULL
    THEN [ok |-> FALSE, db |-> db]
    ELSE [ok |-> TRUE,
          db |-> [db EXCEPT !.stations =
                     IF \E r \in @ : r.id = row.id THEN @ ELSE @ \cup {row}]]

\* INSERT OR REPLACE INTO stations: NOT NULL on id and type aborts the statement,
\* a row with the same primary key is replaced
insert_station(db, d) ==
    LET row == StationRow(d) IN
    IF row.id = NULL \/ row.type = NULL
    THEN [ok |-> FALSE, db |-> db]
    ELSE [ok |-> TRUE,
          db |-> [db EXCEPT !.stations =
                     {r \in @ : r.id # row.id} \cup {row}]]

\* INSERT OR REPLACE INTO harmonic_constituents, one statement per constituent,
\* in list order; the first failing statement raises, the earlier ones stay pending
RECURSIVE InsertConstituents(_, _, _)
InsertConstituents(db, station_id, constituents) ==
    IF constituents = <<>> THEN [ok |-> TRUE, db |-> db]
    ELSE LET c   == Head(constituents)
             row == [stationId |-> station_id, constituentName |-> c.name,
                     amplitude |-> c.amplitude]
         IN IF row.stationId = NULL \/ row.constituentName = NULL
            THEN [ok |-> FALSE, db |-> db]
            ELSE InsertConstituents(
                    [db EXCEPT !.harmonic_constituents =
                        {r \in @ : ~(r.stationId = row.stationId
                                     /\ r.constituentName = row.constituentName)}
                        \cup {row}],
                    station_id, Tail(constituents))

insert_harmonics(db, station_id, harmonics) ==
    InsertConstituents(db, station_id, Get(harmonics, "HarmonicConstituents", <<>>))

insert_subordinate_offsets(db, station_id, reference_id, offsets) ==
    LET row == [stationId |-> station_id, referenceStationId |-> reference_id,
                timeOffsetHigh |-> Get(offsets, "timeOffsetHighTide", 0)]
    IN IF row.stationId = NULL \/ row.referenceStationId = NULL
       THEN [ok |-> FALSE, db |-> db]
       ELSE [ok |-> TRUE,
             db |-> [db EXCEPT !.subordinate_offsets =
                        {r \in @ : r.stationId # row.stationId} \cup {row}]]

\* the test that sends a station's data to harmonic_constituents
TakesHarmonics(d) ==
    Get(d, "type", "harmonic") = "harmonic" /\ "harmonics" \in d.keys

\* the test that sends a station's data to subordinate_offsets
TakesOffsets(d) ==
    "referenceStationId" \in d.keys /\ "tidepredoffsets" \in d.keys

InsertOneStation_NoStationRow(db, d) ==
    LET station_id == Get(d, "id", NULL)
    IN IF TakesHarmonics(d)
       THEN insert_harmonics(db, station_id, d.harmonics)
       ELSE insert_station(db, d)

\* one iteration of `for station_data in stations`
InsertOneStation(db, d) ==
    LET station_id == Get(d, "id", NULL)
        s == insert_station(db, d)
    IN IF ~s.ok THEN s
       ELSE IF TakesHarmonics(d)
            THEN insert_harmonics(s.db, station_id, d.harmonics)
            ELSE IF TakesOffsets(d)
                 THEN insert_subordinate_offsets(s.db, station_id,
                          d.referenceStationId, d.tidepredoffsets)
                 ELSE s

----------------------------------------------------------------------------
\* Inputs of the builder

HarconBody(cons) == [keys |-> {"HarmonicConstituents"}, HarmonicConstituents |-> cons]

NoHarmonics == [keys |-> {}, HarmonicConstituents |-> <<>>]

OffsetsBody(t) == [keys |-> {"timeOffsetHighTide"}, timeOffsetHighTide |-> t]

NoOffsets == [keys |-> {}, timeOffsetHighTide |-> 0]

StationObject(id, keys, type, cons, ref) ==
    [keys |-> keys \cup {"id"}, id |-> id, type |-> type,
     harmonics |-> IF "harmonics" \in keys THEN HarconBody(cons) ELSE NoHarmonics,
     referenceStationId |-> ref,
     tidepredoffsets |-> IF "tidepredoffsets" \in keys THEN OffsetsBody(30) ELSE NoOffsets,
     datumOffset |-> 0, reference_id |-> NULL]

M2(a) == [name |-> "M2", amplitude |-> a]

BuildIds == {"9414290", "8454000"}

\* station objects of every shape the loop distinguishes
StationObjects ==
       \* harmonic or subordinate, with or without constituents
       {StationObject(id, {"type"} \cup k, t, c, NULL) :
            id \in BuildIds, t \in {"harmonic", "subordinate"},
            k \in {{}, {"harmonics"}}, c \in {<<M2(1)>>}}
  \cup \* no type key (defaults to harmonic), two constituents with one name
       {StationObject(id, {"harmonics"}, "harmonic", <<M2(1), M2(2)>>, NULL) :
            id \in BuildIds}
  \cup \* empty constituent list
       {StationObject(id, {"type", "harmonics"}, "harmonic", <<>>, NULL) :
            id \in {"9414290"}}
  \cup \* subordinate with a reference station and offsets
       {StationObject(id, {"type", "referenceStationId", "tidepredoffsets"},
                      "subordinate", <<>>, ref) :
            id \in BuildIds, ref \in BuildIds \cup {"1611400"}}
  \cup \* subordinate with a reference station and no offsets
       {StationObject(id, {"type", "referenceStationId"}, "subordinate", <<>>, "9414290") :
            id \in {"8454000"}}
  \cup \* rows the schema rejects: null id, null constituent name
       {StationObject(NULL, {"type"}, "subordinate", <<>>, NULL),
        StationObject("8454000", {"type", "harmonics"}, "harmonic",
                      <<M2(1), [name |-> NULL, amplitude |-> 1]>>, NULL)}

StationLists ==
    UNION {[1..n -> StationObjects] : n \in 0..MaxStations}

\* what an earlier, unrelated build left in the output path
OldDb ==
    [exists |-> TRUE, schema |-> TRUE,
     stations |-> {[id |-> "8454000", type |-> "harmonic",
                    referenceStationId |-> NULL, datumOffset |-> 7],
                   [id |-> "8518750", type |-> "harmonic",
                    referenceStationId |-> NULL, datumOffset |-> 7]},
     harmonic_constituents |-> {[stationId |-> "8518750", constituentName |-> "S2",
                                 amplitude |-> 7]},
     subordinate_offsets |-> {}]

PriorFiles == {Absent, OldDb}

----------------------------------------------------------------------------
\* fetch_noaa_data.py

REQUEST_DELAY == 500    \* 0.5 s
MAX_RETRIES == 3

TEST_STATIONS == {"9414290", "8454000", "8518750", "8658120", "8636580"}

\* a station object as the enumeration call returns it
UpstreamObject(id, reference_id) ==
    [StationObject(id, IF reference_id = NULL THEN {} ELSE {"reference_id"},
                   "harmonic", <<>>, NULL)
       EXCEPT !.reference_id = reference_id]

\* a test station and another one, the latter with or without a reference station
UpstreamObjects ==
    {UpstreamObject("9414290", NULL), UpstreamObject("1611400", NULL),
     UpstreamObject("1611400", "9414290")}

UpstreamLists == UNION {[1..n -> UpstreamObjects] : n \in 0..MaxUpstream}

\* --mode, and the ids of --stations (empty: the option is not given)
ArgsSet ==
    {[mode |-> m, stations |-> {}] : m \in {"test", "production"}}
  \cup {[mode |-> "test", stations |-> ids] :
           ids \in (SUBSET {"1611400", "0000000"}) \ {{}}}

\* responses of the upstream service to one request
Ok(body) == [status |-> "ok", body |-> body]
NotFound == [status |-> "404", body |-> NoDict]
RequestError == [status |-> "error", body |-> NoDict]

Datum(n, v) == [name |-> n, value |-> v]

DatumsBody(l) == [keys |-> {"datums"}, datums |-> l]

Responses(kind) ==
    {NotFound, RequestError} \cup
    CASE kind = "harcon"  -> {Ok(HarconBody(<<>>)), Ok(HarconBody(<<M2(1)>>))}
      [] kind = "datums"  -> {Ok(DatumsBody(<<Datum("MLLW", 2), Datum("MSL", 5)>>)),
                              Ok(DatumsBody(<<Datum("MSL", 5)>>))}
      [] kind = "offsets" -> {Ok(OffsetsBody(30))}

NoCall == [kind |-> "none", attempt |-> 0, gap |-> <<>>, status |-> "none"]

Message(msg, ids) == [msg |-> msg, ids |-> ids]

\* the fetcher's variables after construction, at position pc
FetcherAt(pc) ==
    /\ fpc = pc
    /\ all_stations = <<>>
    /\ selected = <<>>
    /\ fi = 1
    /\ station_data = UpstreamObject(NULL, NULL)
    /\ attempt = 0
    /\ enriched_stations = <<>>
    /\ harcon_result = <<>>
    /\ enum_requests = 0
    /\ slept = <<>>
    /\ last_call = NoCall
    /\ stderr = {}

InitFetch ==
    /\ FetcherAt("fetch_stations")
    /\ args \in ArgsSet
    /\ exit_code = -1
    /\ stations_file = <<FALSE, <<>>>>

\* a network request is made and answered: the sleeps since the previous one
\* are its gap
Request(kind, status) ==
    /\ last_call' = [kind |-> kind, attempt |-> attempt, gap |-> slept,
                     status |-> status]

\* time.sleep(REQUEST_DELAY)
RateLimit_None(log) == log

RateLimit(log) == Append(log, REQUEST_DELAY)

\* time.sleep(2 ** attempt), in milliseconds
Backoff(log, n) == Append(log, 1000 * 2^n)

\* `except requests.exceptions.RequestException` of fetch_stations: sys.exit(1)
OnStationsError_Continue == [fpc |-> "select", exit_code |-> -1]

OnStationsError == [fpc |-> "exit", exit_code |-> 1]

\* fetch_stations: one request; a failure prints to stderr and exits with code 1
FetchStations ==
    /\ fpc = "fetch_stations"
    /\ enum_requests' = enum_requests + 1
    /\ slept' = <<>>
    /\ \/ /\ Request("stations", "ok")
          /\ all_stations' \in UpstreamLists
          /\ fpc' = "select"
          /\ UNCHANGED <<stderr, exit_code>>
       \/ /\ Request("stations", "error")
          /\ stderr' = stderr \cup {Message("Error fetching stations", {})}
          /\ exit_code' = OnStationsError.exit_code
          /\ fpc' = OnStationsError.fpc
          /\ UNCHANGED all_stations
    /\ UNCHANGED <<args, selected, fi, station_data, attempt, enriched_stations,
                   harcon_result, stations_file, bvars, nvars>>

RECURSIVE SelectSeq2(_, _)
SelectSeq2(l, ids) ==
    IF l = <<>> THEN <<>>
    ELSE IF Get(Head(l), "id", NULL) \in ids
         THEN <<Head(l)>> \o SelectSeq2(Tail(l), ids)
         ELSE SelectSeq2(Tail(l), ids)

\* filter_stations: the stations whose id is requested, in upstream order
filter_stations(all, station_ids) == SelectSeq2(all, station_ids)

\* filter_stations: the requested ids no station carries
missing_ids(all, station_ids) ==
    station_ids \ {Get(filter_stations(all, station_ids)[k], "id", NULL) :
                      k \in 1..Len(filter_stations(all, station_ids))}

\* the ids main hands to filter_stations; {} in production mode
RequestedIds ==
    IF args.stations # {} THEN args.stations
    ELSE IF args.mode = "test" THEN TEST_STATIONS ELSE {}

Filtered == args.stations # {} \/ args.mode = "test"

\* `if not stations`: no station to process is a fatal error
NoStationsIsFatal_Continue(l) == FALSE

NoStationsIsFatal(l) == l = <<>>

\* main, from the choice of the stations to the first rate-limiting sleep
SelectStations ==
    /\ fpc = "select"
    /\ LET chosen == IF Filtered THEN filter_stations(all_stations, RequestedIds)
                     ELSE all_stations
           missing == IF Filtered THEN missing_ids(all_stations, RequestedIds) ELSE {}
           warned == IF missing # {}
                     THEN {Message("Warning: requested station(s) not found", missing)}
                     ELSE {}
       IN /\ selected' = chosen
          /\ IF NoStationsIsFatal(chosen)
             THEN /\ stderr' = stderr \cup warned
                                \cup {Message("Error: No stations to process", {})}
                  /\ exit_code' = 1
                  /\ fpc' = "exit"
             ELSE /\ stderr' = stderr \cup warned
                  /\ exit_code' = exit_code
                  /\ fpc' = "loop"
    /\ fi' = 1
    /\ UNCHANGED <<args, all_stations, station_data, attempt, enriched_stations,
                   harcon_result, enum_requests, slept, last_call, stations_file, bvars, nvars>>

\* top of the loop body: the station is picked and the fetcher sleeps
\* REQUEST_DELAY before the harmonic call
StartStation ==
    /\ fpc = "loop"
    /\ fi <= Len(selected)
    /\ station_data' = selected[fi]
    /\ slept' = RateLimit(slept)
    /\ attempt' = 0
    /\ fpc' = "harcon"
    /\ UNCHANGED <<args, all_stations, selected, fi, enriched_stations, harcon_result,
                   enum_requests, last_call, stderr, exit_code, stations_file, bvars, nvars>>

AttemptOutcome_Retry404(response, n) ==
    IF response.status = "ok" THEN "data"
    ELSE IF n < MAX_RETRIES - 1 THEN "retry"
    ELSE "none"

\* one pass of `for attempt in range(MAX_RETRIES)` in the three fetch functions:
\* "data" returns the body, "none" returns None, "retry" sleeps and tries again
AttemptOutcome(response, n) ==
    IF response.status = "404" THEN "none"
    ELSE IF response.status = "ok" THEN "data"
    ELSE IF n < MAX_RETRIES - 1 THEN "retry"
    ELSE "none"

\* a failed attempt that is retried: back off and try again
Retry(kind) ==
    /\ slept' = Backoff(<<>>, attempt)
    /\ attempt' = attempt + 1
    /\ fpc' = kind
    /\ UNCHANGED <<fi, station_data, enriched_stations, harcon_result, stderr>>

AppendStation_SkipSubordinate(d) ==
    /\ enriched_stations' = IF d.type = "subordinate" THEN enriched_stations
                             ELSE Append(enriched_stations, d)
    /\ fi' = fi + 1
    /\ attempt' = 0
    /\ fpc' = "loop"
    /\ station_data' = d

\* enriched_stations.append(station_data), and on to the next station
AppendStation(d) ==
    /\ enriched_stations' = Append(enriched_stations, d)
    /\ fi' = fi + 1
    /\ attempt' = 0
    /\ fpc' = "loop"
    /\ station_data' = d

\* `if harmonics and len(harmonics.get('HarmonicConstituents', [])) > 0`
HasUsableHarmonics_NoLengthTest(harmonics) == Truthy(harmonics)

HasUsableHarmonics(harmonics) ==
    Truthy(harmonics) /\ Len(Get(harmonics, "HarmonicConstituents", <<>>)) > 0

\* what the service answered to the harmonic call, once the call has returned
HowEnded(response) ==
    IF response.status = "404" THEN "404"
    ELSE IF response.status = "error" THEN "exhausted"
    ELSE IF response.body.HarmonicConstituents # <<>> THEN "nonempty" ELSE "empty"

\* fetch_harmonic_constituents, one attempt, and main up to the next request
FetchHarmonicConstituents ==
    /\ fpc = "harcon"
    /\ \E response \in Responses("harcon") :
         LET outcome == AttemptOutcome(response, attempt)
             harmonics == IF outcome = "data" THEN response.body ELSE NoHarmonics
             reference_id == Get(station_data, "reference_id", NULL)
         IN /\ Request("harcon", response.status)
            /\ IF outcome = "retry" THEN Retry("harcon")
               ELSE /\ stderr' = IF response.status = "error"
                                 THEN stderr \cup {Message("Warning: Could not fetch harmonics",
                                                           {Get(station_data, "id", NULL)})}
                                 ELSE stderr
                    /\ IF HasUsableHarmonics(harmonics)
                       THEN \* harmonic: go on to the datums
                            /\ station_data' = Set(Set(station_data, "harmonics", harmonics),
                                                   "type", "harmonic")
                            /\ harcon_result' = Append(harcon_result,
                                                       HowEnded(response))
                            /\ slept' = RateLimit(<<>>)
                            /\ attempt' = 0
                            /\ fpc' = "datums"
                            /\ UNCHANGED <<fi, enriched_stations>>
                       ELSE IF reference_id # NULL
                       THEN \* subordinate with a reference station: go on to the offsets
                            /\ station_data' = Set(Set(station_data, "type", "subordinate"),
                                                   "referenceStationId", reference_id)
                            /\ harcon_result' = Append(harcon_result,
                                                       HowEnded(response))
                            /\ slept' = RateLimit(<<>>)
                            /\ attempt' = 0
                            /\ fpc' = "offsets"
                            /\ UNCHANGED <<fi, enriched_stations>>
                       ELSE /\ AppendStation(Set(station_data, "type", "subordinate"))
                            /\ harcon_result' = Append(harcon_result,
                                                       HowEnded(response))
                            /\ slept' = <<>>
    /\ UNCHANGED <<args, all_stations, selected, enum_requests, exit_code,
                   stations_file, bvars, nvars>>

\* next((float(d["value"]) for d in datums_list if d["name"] == name), None)
RECURSIVE FirstDatum(_, _)
FirstDatum(datums_list, name) ==
    IF datums_list = <<>> THEN <<>>
    ELSE IF Head(datums_list).name = name THEN <<Head(datums_list).value>>
    ELSE FirstDatum(Tail(datums_list), name)

\* main, lines 349-361: datumOffset = MSL - MLLW when both are there
WithDatumOffset(d, datums_data) ==
    LET datums_list == Get(datums_data, "datums", <<>>)
        msl_val == FirstDatum(datums_list, "MSL")
        mllw_val == FirstDatum(datums_list, "MLLW")
    IN IF Truthy(datums_data) /\ datums_list # <<>> /\ msl_val # <<>> /\ mllw_val # <<>>
       THEN Set(d, "datumOffset", msl_val[1] - mllw_val[1])
       ELSE d

\* fetch_datums, one attempt, and main up to the end of the loop body
FetchDatums ==
    /\ fpc = "datums"
    /\ \E response \in Responses("datums") :
         LET outcome == AttemptOutcome(response, attempt)
             datums_data == IF outcome = "data" THEN response.body
                            ELSE [keys |-> {}, datums |-> <<>>]
         IN /\ Request("datums", response.status)
            /\ IF outcome = "retry" THEN Retry("datums")
               ELSE /\ AppendStation(WithDatumOffset(station_data, datums_data))
                    /\ slept' = <<>>
                    /\ UNCHANGED <<harcon_result, stderr>>
    /\ UNCHANGED <<args, all_stations, selected, enum_requests, exit_code,
                   stations_file, bvars, nvars>>

\* fetch_tide_pred_offsets, one attempt, and main up to the end of the loop body
FetchTidePredOffsets ==
    /\ fpc = "offsets"
    /\ \E response \in Responses("offsets") :
         LET outcome == AttemptOutcome(response, attempt)
             offsets == IF outcome = "data" THEN response.body ELSE NoOffsets
             d == IF Truthy(offsets) THEN Set(station_data, "tidepredoffsets", offsets)
                  ELSE station_data
         IN /\ Request("offsets", response.status)
            /\ IF outcome = "retry" THEN Retry("offsets")
               ELSE /\ AppendStation(d)
                    /\ slept' = <<>>
                    /\ UNCHANGED <<harcon_result, stderr>>
    /\ UNCHANGED <<args, all_stations, selected, enum_requests, exit_code,
                   stations_file, bvars, nvars>>

\* json.dump(enriched_stations, f) after the loop; the process ends with code 0
SaveJson ==
    /\ fpc = "loop"
    /\ fi > Len(selected)
    /\ stations_file' = <<TRUE, enriched_stations>>
    /\ exit_code' = 0
    /\ fpc' = "exit"
    /\ UNCHANGED <<args, all_stations, selected, fi, station_data, attempt,
                   enriched_stations, harcon_result, enum_requests, slept, last_call,
                   stderr, bvars, nvars>>

NextFetch ==
    \/ FetchStations
    \/ SelectStations
    \/ StartStation
    \/ FetchHarmonicConstituents
    \/ FetchDatums
    \/ FetchTidePredOffsets
    \/ SaveJson

----------------------------------------------------------------------------
\* build_database.py: normalize_station_name
\* A name is a sequence of characters, each a one-character string; "U+0149" and
\* "U+02BC" stand for the characters of these code points.

MaxNameLen == 4         \* longest raw name

\* the characters of the raw names: a letter in both cases and another one, the
\* space, the punctuation format_word looks at, and U+0149 (LATIN SMALL LETTER N
\* PRECEDED BY APOSTROPHE), whose title case is two characters
Chars == {"a", "A", "t", " ", "(", ")", ",", "'", "U+0149"}

Names == UNION {[1..n -> Chars] : n \in 0..MaxNameLen}

Whitespace == {" "}

\* str.lower() of one character
Lower(c) ==
    CASE c = "A" -> "a"
      [] c = "T" -> "t"
      [] c = "N" -> "n"
      [] OTHER -> c

\* the title case of one character, as str.capitalize() gives it to the first
\* character of a string: U+0149 becomes U+02BC followed by N
Title(c) ==
    CASE c = "a" -> <<"A">>
      [] c = "t" -> <<"T">>
      [] c = "n" -> <<"N">>
      [] c = "U+0149" -> <<"U+02BC", "N">>
      [] OTHER -> <<c>>

\* str.lower()
lower(w) == [k \in 1..Len(w) |-> Lower(w[k])]

\* str.capitalize(): the first character in title case, the rest in lower case
capitalize(w) == IF w = <<>> THEN w ELSE Title(Head(w)) \o lower(Tail(w))

\* str.isspace()
isspace(w) == w # <<>> /\ \A k \in 1..Len(w) : w[k] \in Whitespace

\* the pieces of w between the characters of seps, empty pieces included
RECURSIVE Pieces(_, _)
Pieces(w, seps) ==
    IF w = <<>> THEN << <<>> >>
    ELSE LET rest == Pieces(Tail(w), seps)
         IN IF Head(w) \in seps THEN << <<>> >> \o rest
            ELSE << <<Head(w)>> \o Head(rest) >> \o Tail(rest)

NonEmpty(w) == w # <<>>

\* name.split(): the words between runs of whitespace
split(w) == SelectSeq(Pieces(w, Whitespace), NonEmpty)

\* sep.join(parts)
RECURSIVE join(_, _)
join(parts, sep) ==
    IF parts = <<>> THEN <<>>
    ELSE IF Len(parts) = 1 THEN Head(parts)
    ELSE Head(parts) \o sep \o join(Tail(parts), sep)

minor_words ==
    {<<"t", "h", "e">>, <<"o", "f">>, <<"a", "n", "d">>, <<"a", "t">>, <<"i", "n">>,
     <<"o", "n">>, <<"a">>, <<"a", "n">>, <<"t", "o">>}

WithParen_Dropped(rest) == rest

\* '(' + format_word(word[1:], is_first=True, after_paren=True)
WithParen(rest) == <<"(">> \o rest

\* format_word: one word in title case
RECURSIVE format_word(_, _, _)
format_word(word, is_first, after_paren) ==
    IF word = <<>> THEN word
    ELSE IF Head(word) = "("
    THEN IF Len(word) = 1 THEN word
         ELSE WithParen(format_word(Tail(word), TRUE, TRUE))
    ELSE IF \E k \in 1..Len(word) : word[k] = "'"
    THEN LET parts == Pieces(word, {"'"})
         IN join([k \in 1..Len(parts) |-> capitalize(parts[k])], <<"'">>)
    ELSE IF word[Len(word)] = ","
    THEN format_word(SubSeq(word, 1, Len(word) - 1), is_first, after_paren) \o <<",">>
    ELSE LET word_lower == lower(word)
         IN IF ~is_first /\ ~after_paren /\ word_lower \in minor_words
            THEN word_lower
            ELSE capitalize(word_lower)

\* the loop over the words: result after the first n words
RECURSIVE FormatWords(_, _)
FormatWords(words, n) ==
    IF n = 0 THEN <<>>
    ELSE LET result == FormatWords(words, n - 1)
             is_first == n = 1
             after_paren == n > 1 /\ result[n - 1][Len(result[n - 1])] = "("
         IN Append(result, format_word(words[n], is_first, after_paren))

normalize_station_name(w) ==
    IF w = <<>> \/ isspace(w) THEN w
    ELSE join(FormatWords(split(w), Len(split(w))), <<" ">>)

\* the name variables at position pc with raw name w
NameAt(pc, w) ==
    /\ npc = pc
    /\ raw_name = w
    /\ normalized = <<>>
    /\ renormalized = <<>>

Normalize ==
    /\ npc = "input"
    /\ normalized' = normalize_station_name(raw_name)
    /\ npc' = "once"
    /\ UNCHANGED <<raw_name, renormalized, stations_file, bvars, fvars>>

\* the normalized name is normalized again
NormalizeAgain ==
    /\ npc = "once"
    /\ renormalized' = normalize_station_name(normalized)
    /\ npc' = "twice"
    /\ UNCHANGED <<raw_name, normalized, stations_file, bvars, fvars>>

NextName == Normalize \/ NormalizeAgain

----------------------------------------------------------------------------
\* build_database.py

stations == stations_file[2]

\* the builder on its own: any station list, any earlier content of the target
InitBuild ==
    /\ stations_file \in {<<TRUE, l>> : l \in StationLists}
    /\ dbfile \in PriorFiles
    /\ previous = dbfile
    /\ conn = Closed
    /\ bpc = "start"
    /\ bi = 1
    /\ reran = FALSE
    /\ FetcherAt("exit")
    /\ args = [mode |-> "production", stations |-> {}]
    /\ exit_code = 0
    /\ NameAt("off", <<>>)

\* main: the input file must exist, else exit with code 1
BuildMain ==
    /\ bpc = "idle"
    /\ fpc = "exit"
    /\ bpc' = IF stations_file[1] THEN "start" ELSE "no_input"
    /\ UNCHANGED <<stations_file, dbfile, conn, bi, previous, reran, fvars, nvars>>

\* if db_path.exists(): db_path.unlink()
RemoveExisting_Keep(db) == db

RemoveExisting(db) == Absent

Unlink ==
    /\ bpc = "start"
    /\ dbfile' = RemoveExisting(dbfile)
    /\ bpc' = "connect"
    /\ UNCHANGED <<stations_file, conn, bi, previous, reran, fvars, nvars>>

\* sqlite3.connect(output_db)
Connect ==
    /\ bpc = "connect"
    /\ dbfile' = IF dbfile.exists THEN dbfile ELSE EmptyFile
    /\ conn' = dbfile'
    /\ bpc' = "schema"
    /\ UNCHANGED <<stations_file, bi, previous, reran, fvars, nvars>>

CreateSchema ==
    /\ bpc = "schema"
    /\ conn' = create_schema(conn)
    /\ dbfile' = conn'
    /\ bpc' = "insert"
    /\ bi' = 1
    /\ UNCHANGED <<stations_file, previous, reran, fvars, nvars>>

\* the committed content after an INSERT statement: the connection is opened with
\* the default isolation level, so the statement runs inside an implicit
\* transaction and the committed content does not change
AfterStatement_Autocommit(file, pending) == pending

AfterStatement(file, pending) == file

\* one loop iteration; an exception leaves through `finally: conn.close()`,
\* which drops the pending inserts, and propagates to the caller
InsertStation ==
    /\ bpc = "insert"
    /\ bi <= Len(stations)
    /\ LET r == InsertOneStation(conn, stations[bi]) IN
         /\ conn' = IF r.ok THEN r.db ELSE Closed
         /\ bi' = IF r.ok THEN bi + 1 ELSE bi
         /\ bpc' = IF r.ok THEN "insert" ELSE "raised"
         /\ dbfile' = AfterStatement(dbfile, r.db)
    /\ UNCHANGED <<stations_file, previous, reran, fvars, nvars>>

\* conn.commit() after the loop
CommitTransaction(file, pending) == pending

Commit ==
    /\ bpc = "insert"
    /\ bi > Len(stations)
    /\ dbfile' = CommitTransaction(dbfile, conn)
    /\ bpc' = "committed"
    /\ UNCHANGED <<stations_file, conn, bi, previous, reran, fvars, nvars>>

\* summary, verification queries, `finally: conn.close()`
Finish ==
    /\ bpc = "committed"
    /\ conn' = Closed
    /\ bpc' = "done"
    /\ UNCHANGED <<stations_file, dbfile, bi, previous, reran, fvars, nvars>>

\* the process is terminated between two steps: pending inserts are lost
Kill ==
    /\ bpc \in {"start", "connect", "schema", "insert", "committed"}
    /\ conn' = Closed
    /\ bpc' = "killed"
    /\ UNCHANGED <<stations_file, dbfile, bi, previous, reran, fvars, nvars>>

\* the builder is run again on the same input
Rerun ==
    /\ bpc = "done"
    /\ previous' = dbfile
    /\ reran' = TRUE
    /\ bpc' = "start"
    /\ bi' = 1
    /\ UNCHANGED <<stations_file, dbfile, conn, fvars, nvars>>

NextBuild ==
    \/ Unlink
    \/ Connect
    \/ CreateSchema
    \/ InsertStation
    \/ Commit
    \/ Finish
    \/ Kill
    \/ Rerun

SpecBuild == InitBuild /\ [][NextBuild]_vars

\* the pipeline: the fetcher, then the builder on the file the fetcher wrote
Init ==
    /\ InitFetch
    /\ dbfile = Absent
    /\ previous = Absent
    /\ conn = Closed
    /\ bpc = "idle"
    /\ bi = 1
    /\ reran = FALSE
    /\ NameAt("off", <<>>)

Next ==
    \/ NextFetch
    \/ BuildMain
    \/ NextBuild

Spec == Init /\ [][Next]_vars

\* normalize_station_name on its own: any raw name, normalized twice
InitName ==
    /\ \E w \in Names : NameAt("input", w)
    /\ FetcherAt("exit")
    /\ args = [mode |-> "production", stations |-> {}]
    /\ exit_code = 0
    /\ stations_file = <<FALSE, <<>>>>
    /\ dbfile = Absent
    /\ previous = Absent
    /\ conn = Closed
    /\ bpc = "idle"
    /\ bi = 1
    /\ reran = FALSE

SpecName == InitName /\ [][NextName]_vars

----------------------------------------------------------------------------
\* Properties of build_database.py

Completed == bpc \in {"committed", "done"}

Terminated == bpc \in {"killed", "raised"}

NoRows(db) ==
    db.stations = {} /\ db.harmonic_constituents = {} /\ db.subordinate_offsets = {}

\* the schema rejects a row of this station object
Rejected(d) ==
    \/ Get(d, "id", NULL) = NULL
    \/ /\ TakesHarmonics(d)
       /\ \E k \in 1..Len(d.harmonics.HarmonicConstituents) :
              d.harmonics.HarmonicConstituents[k].name = NULL
    \/ /\ ~TakesHarmonics(d)
       /\ TakesOffsets(d)
       /\ d.referenceStationId = NULL

\* db holds a row for every station, constituent and offset of the input
FullyRebuilt(db) ==
    /\ db.schema
    /\ \A n \in 1..Len(stations) :
         LET d == stations[n] IN
         /\ \E s \in db.stations : s.id = d.id
         /\ TakesHarmonics(d) =>
               \A k \in 1..Len(d.harmonics.HarmonicConstituents) :
                  \E r \in db.harmonic_constituents :
                     /\ r.stationId = d.id
                     /\ r.constituentName = d.harmonics.HarmonicConstituents[k].name
         /\ (~TakesHarmonics(d) /\ TakesOffsets(d)) =>
               \E r \in db.subordinate_offsets : r.stationId = d.id

\* C1: after a completed build every harmonic_constituents row has a stationId
\* that is the id of a stations row
C1_ReferentialIntegrity ==
    Completed =>
        \A r \in dbfile.harmonic_constituents :
            \E s \in dbfile.stations : s.id = r.stationId

C1_Witness ==
    /\ bpc = "done"
    /\ Cardinality(dbfile.harmonic_constituents) >= 1
    /\ Cardinality(dbfile.stations) >= 2

\* C2: a completed run leaves only rows made from its input, whatever the file
\* held before, and a re-run on the same input leaves the same three tables
C2_IdempotentRebuild ==
    Completed =>
        /\ reran => dbfile = previous
        /\ \A s \in dbfile.stations :
              \E n \in 1..Len(stations) : s = StationRow(stations[n])
        /\ \A r \in dbfile.harmonic_constituents :
              \E n \in 1..Len(stations) :
                 /\ r.stationId = stations[n].id
                 /\ \E k \in 1..Len(stations[n].harmonics.HarmonicConstituents) :
                      LET c == stations[n].harmonics.HarmonicConstituents[k]
                      IN r.constituentName = c.name /\ r.amplitude = c.amplitude
        /\ \A r \in dbfile.subordinate_offsets :
              \E n \in 1..Len(stations) :
                 /\ r.stationId = stations[n].id
                 /\ r.referenceStationId = stations[n].referenceStationId

C2_Witness ==
    /\ bpc = "done"
    /\ reran
    /\ dbfile.harmonic_constituents # {}
    /\ dbfile.subordinate_offsets # {}

\* C6: a failing insertion ends the build in the raised exception, never in a
\* commit, and none of the rows inserted before it is committed
C6_NoPartialCommit ==
    /\ (\E n \in 1..Len(stations) : Rejected(stations[n])) => ~Completed
    /\ bpc = "raised" =>
          /\ Rejected(stations[bi])
          /\ conn = Closed
          /\ NoRows(dbfile)

C6_Witness ==
    /\ bpc = "raised"
    /\ bi = 2
    /\ TakesHarmonics(stations[bi])
    /\ stations[bi].id # NULL

\* C7 as stated: a terminated run leaves the file absent (a zero-length file
\* counted as absent), as the previous run left it, or fully rebuilt
C7_ThreeStates ==
    Terminated =>
        \/ dbfile = Absent
        \/ dbfile = EmptyFile
        \/ dbfile = previous
        \/ FullyRebuilt(dbfile)

\* C7 amended: a terminated run leaves the file absent, as the previous run left
\* it, empty, holding the schema with no row at all, or fully rebuilt; it never
\* holds only part of the rows
C7_NeverPartRows ==
    Terminated =>
        \/ dbfile = Absent
        \/ dbfile = previous
        \/ dbfile = EmptyFile
        \/ dbfile = create_schema(EmptyFile)
        \/ FullyRebuilt(dbfile)

C7_Witness ==
    /\ bpc = "killed"
    /\ Len(stations) = 2
    /\ bi = 2
    /\ dbfile = create_schema(EmptyFile)
    /\ previous = OldDb

\* C10: after a completed build every harmonic_constituents row has a stationId
\* whose stations row has type harmonic
C10_ConstituentsOfHarmonicStations ==
    Completed =>
        \A r \in dbfile.harmonic_constituents :
            \E s \in dbfile.stations : s.id = r.stationId /\ s.type = "harmonic"

\* C11: after a completed build every subordinate_offsets row has a
\* referenceStationId that is the id of a stations row of type harmonic
C11_OffsetsReferToHarmonicStations ==
    Completed =>
        \A r \in dbfile.subordinate_offsets :
            \E s \in dbfile.stations :
                s.id = r.referenceStationId /\ s.type = "harmonic"

\* the constituent entries the build writes: <<n, k>> is entry k of station object n
ConstituentWrites ==
    {w \in (1..Len(stations)) \X (1..2) :
        /\ TakesHarmonics(stations[w[1]])
        /\ w[2] <= Len(stations[w[1]].harmonics.HarmonicConstituents)}

\* the station objects whose offsets the build writes
OffsetWrites ==
    {n \in 1..Len(stations) : ~TakesHarmonics(stations[n]) /\ TakesOffsets(stations[n])}

ConstituentRow(w) ==
    LET c == stations[w[1]].harmonics.HarmonicConstituents[w[2]]
    IN [stationId |-> stations[w[1]].id, constituentName |-> c.name,
        amplitude |-> c.amplitude]

OffsetRow(n) ==
    [stationId |-> stations[n].id,
     referenceStationId |-> stations[n].referenceStationId,
     timeOffsetHigh |-> stations[n].tidepredoffsets.timeOffsetHighTide]

Later(w, v) == w[1] > v[1] \/ (w[1] = v[1] /\ w[2] > v[2])

\* C15: after a completed build the stations table has exactly one row per distinct
\* station id, harmonic_constituents one row per written (stationId,
\* constituentName), subordinate_offsets one row per written stationId, and each
\* row holds the values of the last write of its key in input order
C15_LastWriteWins ==
    Completed =>
        /\ dbfile.stations =
              {StationRow(stations[n]) : n \in
                  {m \in 1..Len(stations) :
                      \A l \in 1..Len(stations) : l > m => stations[l].id # stations[m].id}}
        /\ Cardinality(dbfile.stations) =
              Cardinality({stations[n].id : n \in 1..Len(stations)})
        /\ dbfile.harmonic_constituents =
              {ConstituentRow(w) : w \in
                  {v \in ConstituentWrites :
                      \A u \in ConstituentWrites :
                          Later(u, v) =>
                              \/ ConstituentRow(u).stationId # ConstituentRow(v).stationId
                              \/ ConstituentRow(u).constituentName
                                    # ConstituentRow(v).constituentName}}
        /\ \A r1, r2 \in dbfile.harmonic_constituents :
              (r1.stationId = r2.stationId /\ r1.constituentName = r2.constituentName)
                  => r1 = r2
        /\ dbfile.subordinate_offsets =
              {OffsetRow(n) : n \in
                  {m \in OffsetWrites :
                      \A l \in OffsetWrites : l > m => stations[l].id # stations[m].id}}
        /\ \A r1, r2 \in dbfile.subordinate_offsets :
              r1.stationId = r2.stationId => r1 = r2

C15_Witness ==
    /\ bpc = "done"
    /\ Len(stations) = 2
    /\ stations[1].id = stations[2].id
    /\ stations[1].type # stations[2].type
    /\ stations[1].harmonics.HarmonicConstituents = <<M2(1), M2(2)>>
    /\ TakesHarmonics(stations[1])
    /\ TakesOffsets(stations[2])
    /\ dbfile.harmonic_constituents =
          {[stationId |-> stations[1].id, constituentName |-> "M2", amplitude |-> 2]}
    /\ Cardinality(dbfile.stations) = 1
    /\ Cardinality(dbfile.subordinate_offsets) = 1

----------------------------------------------------------------------------
\* Properties of fetch_noaa_data.py and of the pipeline

EnumFailed == Message("Error fetching stations", {}) \in stderr

PerStationCall == last_call.kind \in {"harcon", "datums", "offsets"}

\* C3: a processed station is typed harmonic exactly when the service answered its
\* harmonic call with a non-empty constituent list, subordinate otherwise (empty
\* list, 404, retries exhausted); every harmonic_constituents row of the build
\* belongs to a station object typed harmonic: subordinate ones produce none
C3_Classification ==
    /\ \A k \in 1..Len(enriched_stations) :
          LET d == enriched_stations[k] IN
          /\ "type" \in d.keys
          /\ d.type \in {"harmonic", "subordinate"}
          /\ d.type = "harmonic" <=> harcon_result[k] = "nonempty"
          /\ d.type = "subordinate" <=> harcon_result[k] \in {"empty", "404", "exhausted"}
    /\ (bpc # "idle" /\ Completed) =>
          \A r \in dbfile.harmonic_constituents :
             \E k \in 1..Len(enriched_stations) :
                /\ enriched_stations[k].id = r.stationId
                /\ enriched_stations[k].type = "harmonic"
                /\ harcon_result[k] = "nonempty"

C3_Witness ==
    /\ bpc = "done"
    /\ Len(enriched_stations) = 2
    /\ harcon_result[1] = "nonempty"
    /\ harcon_result[2] = "empty"
    /\ enriched_stations[1].id # enriched_stations[2].id
    /\ Cardinality(dbfile.stations) = 2
    /\ Cardinality(dbfile.harmonic_constituents) = 1

\* C4: a harmonic call whose every attempt fails ends as None (the station is kept,
\* typed subordinate, and the run goes on); the stations processed so far are the
\* selected ones, one record each, in selection order, and a run that processed
\* them all writes exactly that list and exits with code 0
C4_OneRecordPerStation ==
    /\ Len(enriched_stations) = fi - 1
    /\ Len(enriched_stations) <= Len(selected)
    /\ \A k \in 1..Len(enriched_stations) :
          /\ enriched_stations[k].id = selected[k].id
          /\ enriched_stations[k].reference_id = selected[k].reference_id
          /\ harcon_result[k] = "exhausted" => enriched_stations[k].type = "subordinate"
    /\ (fpc = "exit" /\ selected # <<>>) =>
          /\ exit_code = 0
          /\ Len(enriched_stations) = Len(selected)
          /\ stations_file = <<TRUE, enriched_stations>>

C4_Witness ==
    /\ fpc = "exit"
    /\ Len(enriched_stations) = 2
    /\ harcon_result[1] = "exhausted"
    /\ harcon_result[2] = "nonempty"

\* C5 as stated: every request after the first is preceded, since the request
\* before it, by a sleep of REQUEST_DELAY
C5_RequestDelayBetweenCalls ==
    PerStationCall => \E k \in 1..Len(last_call.gap) : last_call.gap[k] = REQUEST_DELAY

\* C5 amended: every request after the first is preceded, since the request before
\* it, by exactly one sleep: REQUEST_DELAY before the first attempt of a call, and
\* the backoff of 2^(n-1) seconds, which is longer, before attempt n >= 1
C5_DelayOrBackoffBetweenCalls ==
    PerStationCall =>
        /\ Len(last_call.gap) = 1
        /\ last_call.gap[1] >= REQUEST_DELAY
        /\ last_call.attempt = 0 => last_call.gap[1] = REQUEST_DELAY
        /\ last_call.attempt > 0 => last_call.gap[1] = 1000 * 2^(last_call.attempt - 1)

C5_Witness ==
    /\ last_call.kind = "datums"
    /\ last_call.attempt = 2
    /\ fi = 2

\* C8 as stated: the enumeration call is retried, and its failure ends the run with
\* exit code 1 and a stderr message, no per-station call made, no output written
C8_EnumerationRetried ==
    EnumFailed =>
        /\ enum_requests > 1
        /\ fpc = "exit" /\ exit_code = 1
        /\ ~PerStationCall
        /\ ~stations_file[1]

\* C8 amended: the enumeration call is made once, without retry, and its failure
\* ends the run with exit code 1 and a stderr message, no per-station call made,
\* no output written
C8_EnumerationFatal ==
    /\ enum_requests <= 1
    /\ EnumFailed =>
        /\ enum_requests = 1
        /\ fpc = "exit" /\ exit_code = 1
        /\ last_call = [kind |-> "stations", attempt |-> 0, gap |-> <<>>, status |-> "error"]
        /\ enriched_stations = <<>>
        /\ ~stations_file[1]

C8_Witness ==
    /\ EnumFailed
    /\ fpc = "exit"
    /\ bpc = "no_input"

\* the requested ids that no station of the upstream list carries
MissingRequested ==
    RequestedIds \ {all_stations[k].id : k \in 1..Len(all_stations)}

Selecting == Filtered /\ ~EnumFailed /\ fpc \notin {"fetch_stations", "select"}

MissingWarning == Message("Warning: requested station(s) not found", MissingRequested)

\* C9 as stated: with requested ids missing, the missing ids are warned about and
\* the run goes on and exits with code 0
C9_MissingIdsNeverFatal ==
    (Selecting /\ MissingRequested # {}) =>
        /\ MissingWarning \in stderr
        /\ fpc = "exit" => exit_code = 0 /\ stations_file[1]

\* C9 amended: the warning lists exactly the missing ids; when at least one
\* requested station is found the run goes on with the found ones and exits with
\* code 0; when none is found the run ends with exit code 1 and a stderr error,
\* no per-station call made, no output written
C9_MissingIdsWarned ==
    Selecting =>
        /\ MissingRequested # {} <=> MissingWarning \in stderr
        /\ \A m \in stderr :
              m.msg = "Warning: requested station(s) not found" => m = MissingWarning
        /\ \A k \in 1..Len(selected) : selected[k].id \in RequestedIds
        /\ fpc = "exit" =>
              IF RequestedIds \subseteq MissingRequested
              THEN /\ exit_code = 1
                   /\ Message("Error: No stations to process", {}) \in stderr
                   /\ ~PerStationCall
                   /\ ~stations_file[1]
              ELSE /\ exit_code = 0
                   /\ stations_file = <<TRUE, enriched_stations>>
                   /\ Len(enriched_stations) = Len(selected)
                   /\ Len(selected) >= 1

C9_Witness ==
    /\ fpc = "exit"
    /\ exit_code = 0
    /\ args.stations = {"1611400", "0000000"}
    /\ MissingRequested = {"0000000"}
    /\ Len(all_stations) = 2
    /\ Len(enriched_stations) = 1

\* the per-station call has returned: no retry is pending, no backoff was slept
CallEnded ==
    /\ attempt = 0
    /\ fpc # last_call.kind \/ slept = <<REQUEST_DELAY>>
    /\ \A k \in 1..Len(slept) : slept[k] = REQUEST_DELAY

----------------------------------------------------------------------------
\* Properties of normalize_station_name

Normalized == npc \in {"once", "twice"}

RECURSIVE StripOpening(_)
StripOpening(w) ==
    IF w # <<>> /\ Head(w) = "(" THEN StripOpening(Tail(w)) ELSE w

\* a word without the characters of ending attached to its end
RECURSIVE StripEnding(_, _)
StripEnding(w, ending) ==
    IF w # <<>> /\ w[Len(w)] \in ending
    THEN StripEnding(SubSeq(w, 1, Len(w) - 1), ending)
    ELSE w

\* word n of the raw name, with the characters of ending attached, is a minor
\* word and has the case its place asks for in the normalized name
MinorWordCase(n, ending) ==
    LET word == split(raw_name)[n]
        result == split(normalized)
        body == StripOpening(word)
        core == StripEnding(body, ending)
        opening == SubSeq(word, 1, Len(word) - Len(body))
        closing == SubSeq(body, Len(core) + 1, Len(body))
        capital == \/ n = 1
                   \/ opening # <<>>
                   \/ result[n - 1][Len(result[n - 1])] = "("
    IN lower(core) \in minor_words =>
           result[n] = opening
                         \o (IF capital THEN capitalize(lower(core)) ELSE lower(core))
                         \o closing

\* C13: every minor word of the name, in any letter case and with any attached
\* comma or closing parenthesis, is lowercase in the result unless it is the first
\* word or immediately follows an opening parenthesis, and then it is capitalized
C13_MinorWordsLowercase ==
    Normalized =>
        /\ Len(split(normalized)) = Len(split(raw_name))
        /\ \A n \in 1..Len(split(raw_name)) : MinorWordCase(n, {",", ")"})

====
